---- MODULE Spec2Model ----
(***************************************************************************)
(* The Halton sampler of rs_pbrt (src/samplers/halton.rs): the index       *)
(* mapper (base scales, multiplicative inverses, per-pixel offset cache)   *)
(* and the global-sampler protocol (start_pixel, get_1d, get_2d,           *)
(* request_2d_array, get_2d_array, start_next_sample, set_sample_number,   *)
(* clone).                                                                 *)
(***************************************************************************)
EXTENDS Integers, Sequences, FiniteSets, TLC

\* ------------------------------------------------------------------ bounds
\* largest samples_per_pixel a sampler is built with
MaxSpp == 2
\* the sizes passed to request_2d_array / get_2d_array
ArraySizes == {1, 2}
\* most arrays registered on one sampler
MaxArrays == 2
\* pixels visited along each axis of a sample region, from its low corner
MaxProbe == 4
\* calls made on one of two samplers alone before they are driven together
MaxSolo == 1
\* calls of get_index_for_sample the threads make, all together, in a run
\* where they make finitely many
MaxCalls == 2
\* threads that call get_index_for_sample on one shared sampler
NThreads == 2

\* --------------------------------------------------------------- constants
K_MAX_RESOLUTION == 128
\* array_start_dim: 5_i64 in HaltonSampler::new
ARRAY_START_DIM == 5
\* core::lowdiscrepancy::PRIME_TABLE_SIZE; the table of the model is kept
\* short so that the cursor can run off its end
PRIME_TABLE_SIZE == 10

\* ----------------------------------------------------------- integer help
RECURSIVE Pow(_, _)
Pow(b, e) == IF e = 0 THEN 1 ELSE b * Pow(b, e - 1)

Min(a, b) == IF a < b THEN a ELSE b

\* Rust's integer division truncates toward zero (b > 0)
TruncDiv(a, b) == IF a >= 0 THEN a \div b ELSE -((-a) \div b)

\* core::pbrt::mod_t
mod_t(a, b) ==
    LET result == a - TruncDiv(a, b) * b
    IN  IF result < 0 THEN result + b ELSE result

\* extended_gcd(a, b, &mut x, &mut y): the pair <<x, y>> it leaves
RECURSIVE extended_gcd(_, _)
extended_gcd(a, b) ==
    IF b = 0 THEN <<1, 0>>
    ELSE LET d  == a \div b
             r  == extended_gcd(b, a % b)
             xp == r[1]
             yp == r[2]
         IN  <<yp, xp - d * yp>>

\* mutant: the other Bezout coefficient is taken
multiplicative_inverse_M(a, n) == mod_t(extended_gcd(a, n)[2], n)

multiplicative_inverse(a, n) == mod_t(extended_gcd(a, n)[1], n)

\* --------------------------------------------- core::lowdiscrepancy (spec)
\* a sample value: an exact fraction a/b (k = "q"), or the scrambled radical
\* inverse of index b in the prime base of dimension a (k = "sri"), which
\* depends on the process-wide random permutation table and stays symbolic
Frac(num, den) == [k |-> "q", a |-> num, b |-> den]
Half == Frac(1, 2)
Fatal == [k |-> "fatal", a |-> 0, b |-> 0]

BaseOf(base_index) == IF base_index = 0 THEN 2 ELSE 3

\* reversed digits of a in the given base, as <<numerator, denominator>>
RECURSIVE RevDigits(_, _, _, _)
RevDigits(base, a, num, den) ==
    IF a = 0 THEN <<num, den>>
    ELSE RevDigits(base, a \div base, num * base + (a % base), den * base)

radical_inverse(base_index, a) ==
    LET r == RevDigits(BaseOf(base_index), a, 0, 1)
    IN  Frac(r[1], r[2])

scrambled_radical_inverse(base_index, a) == [k |-> "sri", a |-> base_index, b |-> a]

RECURSIVE InvRadInvLoop(_, _, _, _)
InvRadInvLoop(base, inverse, n_digits, index) ==
    IF n_digits = 0 THEN index
    ELSE InvRadInvLoop(base, inverse \div base, n_digits - 1,
                       index * base + (inverse % base))

inverse_radical_inverse(base, inverse, n_digits) ==
    InvRadInvLoop(base, inverse, n_digits, 0)

\* ------------------------------------------------------ HaltonSampler::new
\* mutant: the loop runs once more when the scale has just reached the extent
RECURSIVE ScaleLoop_Over(_, _, _, _)
ScaleLoop_Over(base, res, scale, exp) ==
    IF scale <= Min(res, K_MAX_RESOLUTION)
    THEN ScaleLoop_Over(base, res, scale * base, exp + 1)
    ELSE <<scale, exp>>

\* the while loop of new: <<scale, exp>>
RECURSIVE ScaleLoop(_, _, _, _)
ScaleLoop(base, res, scale, exp) ==
    IF scale < Min(res, K_MAX_RESOLUTION)
    THEN ScaleLoop(base, res, scale * base, exp + 1)
    ELSE <<scale, exp>>

New(samples_per_pixel, sample_bounds, sample_at_pixel_center) ==
    LET res == <<sample_bounds.p_max[1] - sample_bounds.p_min[1],
                 sample_bounds.p_max[2] - sample_bounds.p_min[2]>>
        l0  == ScaleLoop(2, res[1], 1, 0)
        l1  == ScaleLoop(3, res[2], 1, 0)
        base_scales == <<l0[1], l1[1]>>
    IN  [ samples_per_pixel          |-> samples_per_pixel,
          base_scales                |-> base_scales,
          base_exponents             |-> <<l0[2], l1[2]>>,
          sample_stride              |-> base_scales[1] * base_scales[2],
          mult_inverse               |->
              << multiplicative_inverse(base_scales[2], base_scales[1]),
                 multiplicative_inverse(base_scales[1], base_scales[2]) >>,
          pixel_for_offset           |-> <<0, 0>>,
          offset_for_current_pixel   |-> 0,
          sample_at_pixel_center     |-> sample_at_pixel_center,
          dimension                  |-> 0,
          interval_sample_index      |-> 0,
          array_start_dim            |-> ARRAY_START_DIM,
          array_end_dim              |-> 0,
          current_pixel              |-> <<0, 0>>,
          current_pixel_sample_index |-> 0,
          samples_1d_array_sizes     |-> << >>,
          samples_2d_array_sizes     |-> << >>,
          sample_array_1d            |-> << >>,
          sample_array_2d            |-> << >>,
          array_1d_offset            |-> 0,
          array_2d_offset            |-> 0 ]

\* ------------------------------------------------- get_index_for_sample
\* mutant: the per-axis terms are summed without the multiplicative inverses
ComputeOffset_NoInverse(smp) ==
    IF smp.sample_stride > 1
    THEN LET pm == << mod_t(smp.current_pixel[1], K_MAX_RESOLUTION),
                      mod_t(smp.current_pixel[2], K_MAX_RESOLUTION) >>
             d0 == inverse_radical_inverse(2, pm[1], smp.base_exponents[1])
             d1 == inverse_radical_inverse(3, pm[2], smp.base_exponents[2])
             a0 == 0 + d0 * (smp.sample_stride \div smp.base_scales[1])
             a1 == a0 + d1 * (smp.sample_stride \div smp.base_scales[2])
         IN  a1 % smp.sample_stride
    ELSE 0

\* the offset the miss path computes for the current pixel
ComputeOffset(smp) ==
    IF smp.sample_stride > 1
    THEN LET pm == << mod_t(smp.current_pixel[1], K_MAX_RESOLUTION),
                      mod_t(smp.current_pixel[2], K_MAX_RESOLUTION) >>
             d0 == inverse_radical_inverse(2, pm[1], smp.base_exponents[1])
             d1 == inverse_radical_inverse(3, pm[2], smp.base_exponents[2])
             a0 == 0 + d0 * (smp.sample_stride \div smp.base_scales[1])
                         * smp.mult_inverse[1]
             a1 == a0 + d1 * (smp.sample_stride \div smp.base_scales[2])
                          * smp.mult_inverse[2]
         IN  a1 % smp.sample_stride
    ELSE 0

\* lines 143-153: what pass i (0 or 1) of the loop adds to the offset
OffsetTerm(smp, i) ==
    LET pm == << mod_t(smp.current_pixel[1], K_MAX_RESOLUTION),
                 mod_t(smp.current_pixel[2], K_MAX_RESOLUTION) >>
        dim_offset == inverse_radical_inverse(BaseOf(i), pm[i + 1],
                                              smp.base_exponents[i + 1])
    IN  dim_offset * (smp.sample_stride \div smp.base_scales[i + 1])
                   * smp.mult_inverse[i + 1]

\* mutant: a miss installs the pixel and keeps the old offset
CacheAfter_M(smp) ==
    IF smp.current_pixel # smp.pixel_for_offset
    THEN [smp EXCEPT !.pixel_for_offset = smp.current_pixel]
    ELSE smp

\* mutant: a miss stores the offset and not the pixel it belongs to
CacheAfter_OffsetOnly(smp) ==
    IF smp.current_pixel # smp.pixel_for_offset
    THEN [smp EXCEPT !.offset_for_current_pixel = ComputeOffset(smp)]
    ELSE smp

\* the sampler after the call: the cache is rewritten on a miss only
CacheAfter(smp) ==
    IF smp.current_pixel # smp.pixel_for_offset
    THEN [smp EXCEPT !.offset_for_current_pixel = ComputeOffset(smp),
                     !.pixel_for_offset = smp.current_pixel]
    ELSE smp

\* the value returned
get_index_for_sample(smp, sample_num) ==
    CacheAfter(smp).offset_for_current_pixel + sample_num * smp.sample_stride

\* ------------------------------------------------------- sample_dimension
\* mutant: the prime table is taken to hold one more dimension
sample_dimension_Late(smp, index, dim) ==
    IF smp.sample_at_pixel_center /\ (dim = 0 \/ dim = 1) THEN Half
    ELSE IF dim = 0
         THEN radical_inverse(0, index \div Pow(2, smp.base_exponents[1]))
    ELSE IF dim = 1
         THEN radical_inverse(1, index \div smp.base_scales[2])
    ELSE IF dim > PRIME_TABLE_SIZE THEN Fatal
    ELSE scrambled_radical_inverse(dim, index)

\* mutant: the pixel centre is taken on the x axis only
sample_dimension_XOnly(smp, index, dim) ==
    IF smp.sample_at_pixel_center /\ dim = 0 THEN Half
    ELSE IF dim = 0
         THEN radical_inverse(0, index \div Pow(2, smp.base_exponents[1]))
    ELSE IF dim = 1
         THEN radical_inverse(1, index \div smp.base_scales[2])
    ELSE IF dim >= PRIME_TABLE_SIZE THEN Fatal
    ELSE scrambled_radical_inverse(dim, index)

sample_dimension(smp, index, dim) ==
    IF smp.sample_at_pixel_center /\ (dim = 0 \/ dim = 1) THEN Half
    ELSE IF dim = 0
         THEN radical_inverse(0, index \div Pow(2, smp.base_exponents[1]))
    ELSE IF dim = 1
         THEN radical_inverse(1, index \div smp.base_scales[2])
    ELSE IF dim >= PRIME_TABLE_SIZE THEN Fatal
    ELSE scrambled_radical_inverse(dim, index)

\* ----------------------------------------------- what a call hands back
\* smp: the sampler after the call; fault: "none", or "assert" / "panic"
\* when the call does not return; ret: the scalars returned (get_1d: one,
\* get_2d: x then y); arr: the pairs returned by get_2d_array; ok: the
\* boolean returned; used: the <<index, dimension>> pairs evaluated
Res(smp, fault, ret, arr, ok, used) ==
    [smp |-> smp, fault |-> fault, ret |-> ret, arr |-> arr, ok |-> ok,
     used |-> used]

\* ------------------------------------------------------------ start_pixel
\* the first of the two dimensions reserved for the i-th 2D array (i >= 1)
ArrayDim(smp, i) ==
    smp.array_start_dim + Len(smp.samples_1d_array_sizes) + 2 * (i - 1)

NSamples(smp, i) == smp.samples_2d_array_sizes[i] * smp.samples_per_pixel

\* mutant: every cell of a pixel is drawn at the index of the first sample
Cell_OneIndex(smp, j, dim) ==
    LET idx == get_index_for_sample(smp, 0)
    IN  << sample_dimension(smp, idx, dim), sample_dimension(smp, idx, dim + 1) >>

\* cell j (from 0) of an array whose first dimension is dim
Cell(smp, j, dim) ==
    LET idx == get_index_for_sample(smp, j)
    IN  << sample_dimension(smp, idx, dim), sample_dimension(smp, idx, dim + 1) >>

\* filling the i-th array stops in sample_dimension
FillFaults(smp, i) ==
    /\ NSamples(smp, i) > 0
    /\ \/ ArrayDim(smp, i) + 1 >= PRIME_TABLE_SIZE
       \/ NSamples(smp, i) > Len(smp.sample_array_2d[i])

FilledBuffer(smp, i) ==
    [ j \in 1..Len(smp.sample_array_2d[i]) |->
        IF j <= NSamples(smp, i) THEN Cell(smp, j - 1, ArrayDim(smp, i))
        ELSE smp.sample_array_2d[i][j] ]

\* the i-th buffer when the fill stopped in it: x of cell 0 may be written
PartialBuffer(smp, i) ==
    [ j \in 1..Len(smp.sample_array_2d[i]) |->
        IF j = 1 /\ ArrayDim(smp, i) < PRIME_TABLE_SIZE
        THEN << Cell(smp, 0, ArrayDim(smp, i))[1], smp.sample_array_2d[i][j][2] >>
        ELSE smp.sample_array_2d[i][j] ]

\* mutant: the scalar cursor is not reset
StartPixelReset_M(smp, p) ==
    LET s1 == [smp EXCEPT !.current_pixel = p,
                          !.current_pixel_sample_index = 0,
                          !.array_1d_offset = 0,
                          !.array_2d_offset = 0]
    IN  [CacheAfter(s1) EXCEPT !.interval_sample_index = get_index_for_sample(s1, 0)]

\* lines 190-196: the cursor reset and the index of sample 0
StartPixelReset(smp, p) ==
    LET s1 == [smp EXCEPT !.current_pixel = p,
                          !.current_pixel_sample_index = 0,
                          !.array_1d_offset = 0,
                          !.array_2d_offset = 0,
                          !.dimension = 0]
    IN  [CacheAfter(s1) EXCEPT !.interval_sample_index = get_index_for_sample(s1, 0)]

\* mutant: one dimension is reserved for each 2D array
ArrayEndDim_Single(smp) ==
    smp.array_start_dim + Len(smp.sample_array_1d) + Len(smp.sample_array_2d)

\* lines 198-200
ArrayEndDim(smp) ==
    smp.array_start_dim + Len(smp.sample_array_1d) + 2 * Len(smp.sample_array_2d)

start_pixel(smp, p) ==
    LET s2 == [StartPixelReset(smp, p) EXCEPT !.array_end_dim = ArrayEndDim(smp)]
        k  == Len(s2.samples_2d_array_sizes)
        F  == { i \in 1..k : FillFaults(s2, i) }
        dim == ArrayDim(s2, k + 1)
    IN  IF F = {}
        THEN LET s3 == [s2 EXCEPT !.sample_array_2d =
                            [ i \in 1..k |-> FilledBuffer(s2, i) ]]
             IN  Res(s3, IF s3.array_end_dim = dim THEN "none" ELSE "assert",
                     << >>, << >>, TRUE, << >>)
        ELSE LET iF == CHOOSE i \in F : \A m \in F : i <= m
                 s3 == [s2 EXCEPT !.sample_array_2d =
                            [ i \in 1..k |->
                                IF i < iF THEN FilledBuffer(s2, i)
                                ELSE IF i = iF THEN PartialBuffer(s2, i)
                                ELSE s2.sample_array_2d[i] ]]
             IN  Res(s3, "panic", << >>, << >>, TRUE, << >>)

\* ------------------------------------------------------- get_1d, get_2d
\* line 226
InWindow1D(smp) ==
    smp.dimension >= smp.array_start_dim /\ smp.dimension < smp.array_end_dim

\* mutant: the pair test forgets that dimension + 1 is consumed too
InWindow2D_M(smp) ==
    smp.dimension >= smp.array_start_dim /\ smp.dimension < smp.array_end_dim

\* line 237
InWindow2D(smp) ==
    smp.dimension + 1 >= smp.array_start_dim /\ smp.dimension < smp.array_end_dim

\* mutant: a cursor inside the window is moved to its start
get_1d_Rewind(smp) ==
    LET s1  == IF InWindow1D(smp)
               THEN [smp EXCEPT !.dimension = smp.array_start_dim] ELSE smp
        v   == sample_dimension(s1, s1.interval_sample_index, s1.dimension)
        use == << <<s1.interval_sample_index, s1.dimension>> >>
    IN  IF v = Fatal
        THEN Res(s1, "panic", << >>, << >>, TRUE, use)
        ELSE Res([s1 EXCEPT !.dimension = s1.dimension + 1], "none",
                 <<v>>, << >>, TRUE, use)

get_1d(smp) ==
    LET s1  == IF InWindow1D(smp)
               THEN [smp EXCEPT !.dimension = smp.array_end_dim] ELSE smp
        v   == sample_dimension(s1, s1.interval_sample_index, s1.dimension)
        use == << <<s1.interval_sample_index, s1.dimension>> >>
    IN  IF v = Fatal
        THEN Res(s1, "panic", << >>, << >>, TRUE, use)
        ELSE Res([s1 EXCEPT !.dimension = s1.dimension + 1], "none",
                 <<v>>, << >>, TRUE, use)

get_2d(smp) ==
    LET s1  == IF InWindow2D(smp)
               THEN [smp EXCEPT !.dimension = smp.array_end_dim] ELSE smp
        y   == sample_dimension(s1, s1.interval_sample_index, s1.dimension + 1)
        x   == sample_dimension(s1, s1.interval_sample_index, s1.dimension)
    IN  IF y = Fatal
        THEN Res(s1, "panic", << >>, << >>, TRUE,
                 << <<s1.interval_sample_index, s1.dimension + 1>> >>)
        ELSE IF x = Fatal
        THEN Res(s1, "panic", << >>, << >>, TRUE,
                 << <<s1.interval_sample_index, s1.dimension + 1>>,
                    <<s1.interval_sample_index, s1.dimension>> >>)
        ELSE Res([s1 EXCEPT !.dimension = s1.dimension + 2], "none",
                 <<x, y>>, << >>, TRUE,
                 << <<s1.interval_sample_index, s1.dimension + 1>>,
                    <<s1.interval_sample_index, s1.dimension>> >>)

\* ------------------------------------- request_2d_array, get_2d_array
round_count(count) == count

\* Point2f::default()
Zero2f == << Frac(0, 1), Frac(0, 1) >>

\* mutant: the buffer holds one pixel-sample only
request_2d_array_M(smp, n) ==
    Res([smp EXCEPT !.samples_2d_array_sizes = Append(@, n),
                    !.sample_array_2d = Append(@, [j \in 1..n |-> Zero2f])],
        "none", << >>, << >>, TRUE, << >>)

request_2d_array(smp, n) ==
    IF round_count(n) # n THEN Res(smp, "assert", << >>, << >>, TRUE, << >>)
    ELSE LET size == n * smp.samples_per_pixel
         IN  Res([smp EXCEPT
                    !.samples_2d_array_sizes = Append(@, n),
                    !.sample_array_2d = Append(@, [j \in 1..size |-> Zero2f])],
                 "none", << >>, << >>, TRUE, << >>)

\* mutant: the array access also moves the scalar cursor
get_2d_array_M(smp, n) ==
    IF smp.array_2d_offset = Len(smp.sample_array_2d)
    THEN Res(smp, "none", << >>, << >>, TRUE, << >>)
    ELSE IF smp.samples_2d_array_sizes[smp.array_2d_offset + 1] # n
    THEN Res(smp, "assert", << >>, << >>, TRUE, << >>)
    ELSE IF ~(smp.current_pixel_sample_index < smp.samples_per_pixel)
    THEN Res(smp, "assert", << >>, << >>, TRUE, << >>)
    ELSE LET start == smp.current_pixel_sample_index * n
             buf   == smp.sample_array_2d[smp.array_2d_offset + 1]
         IN  Res([smp EXCEPT !.array_2d_offset = @ + 1,
                             !.dimension = @ + 2], "none", << >>,
                 [j \in 1..n |-> buf[start + j]], TRUE, << >>)

\* mutant: the sample index is asserted before the offset is looked at
get_2d_array_AssertFirst(smp, n) ==
    IF ~(smp.current_pixel_sample_index < smp.samples_per_pixel)
    THEN Res(smp, "assert", << >>, << >>, TRUE, << >>)
    ELSE IF smp.array_2d_offset = Len(smp.sample_array_2d)
    THEN Res(smp, "none", << >>, << >>, TRUE, << >>)
    ELSE IF smp.samples_2d_array_sizes[smp.array_2d_offset + 1] # n
    THEN Res(smp, "assert", << >>, << >>, TRUE, << >>)
    ELSE LET start == smp.current_pixel_sample_index * n
             end   == start + n
             buf   == smp.sample_array_2d[smp.array_2d_offset + 1]
         IN  IF end > Len(buf)
             THEN Res(smp, "panic", << >>, << >>, TRUE, << >>)
             ELSE Res([smp EXCEPT !.array_2d_offset = @ + 1], "none", << >>,
                      [j \in 1..n |-> buf[start + j]], TRUE, << >>)

\* mutant: the size registered for the slot is not compared with n
get_2d_array_Unsized(smp, n) ==
    IF smp.array_2d_offset = Len(smp.sample_array_2d)
    THEN Res(smp, "none", << >>, << >>, TRUE, << >>)
    ELSE IF ~(smp.current_pixel_sample_index < smp.samples_per_pixel)
    THEN Res(smp, "assert", << >>, << >>, TRUE, << >>)
    ELSE LET start == smp.current_pixel_sample_index * n
             end   == start + n
             buf   == smp.sample_array_2d[smp.array_2d_offset + 1]
         IN  IF end > Len(buf)
             THEN Res(smp, "panic", << >>, << >>, TRUE, << >>)
             ELSE Res([smp EXCEPT !.array_2d_offset = @ + 1], "none", << >>,
                      [j \in 1..n |-> buf[start + j]], TRUE, << >>)

get_2d_array(smp, n) ==
    IF smp.array_2d_offset = Len(smp.sample_array_2d)
    THEN Res(smp, "none", << >>, << >>, TRUE, << >>)
    ELSE IF smp.samples_2d_array_sizes[smp.array_2d_offset + 1] # n
    THEN Res(smp, "assert", << >>, << >>, TRUE, << >>)
    ELSE IF ~(smp.current_pixel_sample_index < smp.samples_per_pixel)
    THEN Res(smp, "assert", << >>, << >>, TRUE, << >>)
    ELSE LET start == smp.current_pixel_sample_index * n
             end   == start + n
             buf   == smp.sample_array_2d[smp.array_2d_offset + 1]
         IN  IF end > Len(buf)
             THEN Res(smp, "panic", << >>, << >>, TRUE, << >>)
             ELSE Res([smp EXCEPT !.array_2d_offset = @ + 1], "none", << >>,
                      [j \in 1..n |-> buf[start + j]], TRUE, << >>)

\* --------------------------- start_next_sample, set_sample_number, reseed
\* mutant: the remaining-sample test is off by one
start_next_sample_M(smp) ==
    LET s1 == [smp EXCEPT !.dimension = 0]
        s2 == [CacheAfter(s1) EXCEPT
                 !.interval_sample_index =
                     get_index_for_sample(s1, s1.current_pixel_sample_index + 1),
                 !.array_1d_offset = 0,
                 !.array_2d_offset = 0,
                 !.current_pixel_sample_index = @ + 1]
    IN  Res(s2, "none", << >>, << >>,
            s2.current_pixel_sample_index <= s2.samples_per_pixel, << >>)

\* mutant: the index is computed for the sample that has just ended
start_next_sample_Stale(smp) ==
    LET s1 == [smp EXCEPT !.dimension = 0]
        s2 == [CacheAfter(s1) EXCEPT
                 !.interval_sample_index =
                     get_index_for_sample(s1, s1.current_pixel_sample_index),
                 !.array_1d_offset = 0,
                 !.array_2d_offset = 0,
                 !.current_pixel_sample_index = @ + 1]
    IN  Res(s2, "none", << >>, << >>,
            s2.current_pixel_sample_index < s2.samples_per_pixel, << >>)

start_next_sample(smp) ==
    LET s1 == [smp EXCEPT !.dimension = 0]
        s2 == [CacheAfter(s1) EXCEPT
                 !.interval_sample_index =
                     get_index_for_sample(s1, s1.current_pixel_sample_index + 1),
                 !.array_1d_offset = 0,
                 !.array_2d_offset = 0,
                 !.current_pixel_sample_index = @ + 1]
    IN  Res(s2, "none", << >>, << >>,
            s2.current_pixel_sample_index < s2.samples_per_pixel, << >>)

\* mutant: the 2D array offset is left where it was
set_sample_number_KeepsOffset(smp, sample_num) ==
    LET s1 == [smp EXCEPT !.dimension = 0]
        s2 == [CacheAfter(s1) EXCEPT
                 !.interval_sample_index = get_index_for_sample(s1, sample_num),
                 !.array_1d_offset = 0,
                 !.current_pixel_sample_index = sample_num]
    IN  Res(s2, "none", << >>, << >>,
            s2.current_pixel_sample_index < s2.samples_per_pixel, << >>)

set_sample_number(smp, sample_num) ==
    LET s1 == [smp EXCEPT !.dimension = 0]
        s2 == [CacheAfter(s1) EXCEPT
                 !.interval_sample_index = get_index_for_sample(s1, sample_num),
                 !.array_1d_offset = 0,
                 !.array_2d_offset = 0,
                 !.current_pixel_sample_index = sample_num]
    IN  Res(s2, "none", << >>, << >>,
            s2.current_pixel_sample_index < s2.samples_per_pixel, << >>)

reseed(smp, seed) == Res(smp, "none", << >>, << >>, TRUE, << >>)

\* ------------------------------------------------------------------ clone
\* mutant: the clone starts with a fresh offset lock
Clone_M(smp) ==
    [smp EXCEPT !.offset_for_current_pixel = 0]

Clone(smp) ==
    [ samples_per_pixel          |-> smp.samples_per_pixel,
      base_scales                |-> smp.base_scales,
      base_exponents             |-> smp.base_exponents,
      sample_stride              |-> smp.sample_stride,
      mult_inverse               |-> smp.mult_inverse,
      pixel_for_offset           |-> smp.pixel_for_offset,
      offset_for_current_pixel   |-> smp.offset_for_current_pixel,
      sample_at_pixel_center     |-> smp.sample_at_pixel_center,
      dimension                  |-> smp.dimension,
      interval_sample_index      |-> smp.interval_sample_index,
      array_start_dim            |-> smp.array_start_dim,
      array_end_dim              |-> smp.array_end_dim,
      current_pixel              |-> smp.current_pixel,
      current_pixel_sample_index |-> smp.current_pixel_sample_index,
      samples_1d_array_sizes     |-> smp.samples_1d_array_sizes,
      samples_2d_array_sizes     |-> smp.samples_2d_array_sizes,
      sample_array_1d            |-> smp.sample_array_1d,
      sample_array_2d            |-> smp.sample_array_2d,
      array_1d_offset            |-> smp.array_1d_offset,
      array_2d_offset            |-> smp.array_2d_offset ]

\* ================================================================= state
VARIABLES
    s,          \* the sampler
    c,          \* a second sampler: built like s, or the last clone of s
    bounds,     \* the sample_bounds s was built over
    fault,      \* "none", or how the program stopped ("assert", "panic")
    started,    \* start_pixel has been called on s
    last,       \* the last call on s and what it handed back
    lastc,      \* the last call on c and what it handed back
    nCalls,     \* start_next_sample calls on s since start_pixel, while no
                \* set_sample_number came between
    setSeen,    \* set_sample_number was called on s since start_pixel
    exhausted,  \* start_next_sample returned false since start_pixel
    exhaustedA, \* the same, since start_pixel or set_sample_number
    track,      \* whether the four history variables above are kept: only
                \* the exhaustion claim reads them
    sync,       \* s and c are being driven by the same calls since a common
                \* start_pixel or since c was cloned from s
    solo,       \* calls made on one sampler alone since they were last in sync
    cloned,     \* c was made by clone()
    th,         \* threads inside get_index_for_sample(&self) on s: where
                \* each one is and its locals
    lk          \* the two RwLocks of s: the writer (0: none) and the readers

vars == << s, c, bounds, fault, last, lastc, started, nCalls, setSeen,
           exhausted, exhaustedA, track, sync, solo, cloned, th, lk >>

Call(op, p, n, r) ==
    [op |-> op, p |-> p, n |-> n, ret |-> r.ret, arr |-> r.arr, ok |-> r.ok,
     used |-> r.used, fault |-> r.fault]

Idle == [op |-> "idle", p |-> <<0, 0>>, n |-> 0, ret |-> << >>, arr |-> << >>,
         ok |-> TRUE, used |-> << >>, fault |-> "none"]

Bounds(x0, y0, x1, y1) == [p_min |-> <<x0, y0>>, p_max |-> <<x1, y1>>]

\* the pixels of a sample region that are visited
PixelsOf(b) ==
    { <<x, y>> : x \in b.p_min[1]..(Min(b.p_max[1], b.p_min[1] + MaxProbe) - 1),
                 y \in b.p_min[2]..(Min(b.p_max[2], b.p_min[2] + MaxProbe) - 1) }

Threads == 1..NThreads

\* a thread that is not inside get_index_for_sample; ret is what its last
\* call returned, calls the calls it has made where they are counted
IdleThread == [pc |-> "idle", n |-> 0, pfo |-> <<0, 0>>, miss |-> FALSE,
               off |-> 0, ret |-> 0, calls |-> 0]

\* RwLock::new
FreeLock == [w |-> 0, r |-> {}]

\* the sample regions the protocol is exercised over
ProtocolBounds == { Bounds(0, 0, 2, 1) }

InitWith(B, Spps, Centers, tr) ==
    /\ bounds \in B
    /\ track = tr
    /\ solo = 0
    /\ cloned = FALSE
    /\ th = [t \in Threads |-> IdleThread]
    /\ lk = [pixel |-> FreeLock, offset |-> FreeLock]
    /\ \E spp \in Spps, center \in Centers :
          /\ s = New(spp, bounds, center)
          /\ c = New(spp, bounds, center)
    /\ fault = "none"
    /\ last = Idle
    /\ lastc = Idle
    /\ started = FALSE
    /\ nCalls = 0
    /\ setSeen = FALSE
    /\ exhausted = FALSE
    /\ exhaustedA = FALSE
    /\ sync = FALSE

Init == InitWith(ProtocolBounds, 1..MaxSpp, {FALSE}, FALSE)

\* a call on s alone
OnS(op, p, n, r) ==
    /\ fault = "none"
    /\ s' = r.smp
    /\ fault' = r.fault
    /\ last' = Call(op, p, n, r)
    /\ lastc' = Idle
    /\ UNCHANGED << c, bounds, track, sync, solo, cloned, th, lk >>

history == << started, nCalls, setSeen, exhausted, exhaustedA >>

Ghosts(st, k, seen, ex, exA) ==
    IF track
    THEN /\ started' = st
         /\ nCalls' = k
         /\ setSeen' = seen
         /\ exhausted' = ex
         /\ exhaustedA' = exA
    ELSE UNCHANGED history

StartPixel ==
    \E p \in PixelsOf(bounds) :
        /\ OnS("start_pixel", p, 0, start_pixel(s, p))
        /\ Ghosts(TRUE, 0, FALSE, FALSE, FALSE)

Get1D ==
    /\ OnS("get_1d", <<0, 0>>, 0, get_1d(s))
    /\ UNCHANGED history

Get2D ==
    /\ OnS("get_2d", <<0, 0>>, 0, get_2d(s))
    /\ UNCHANGED history

Request2DArray ==
    \E n \in ArraySizes :
        /\ Len(s.samples_2d_array_sizes) < MaxArrays
        /\ OnS("request_2d_array", <<0, 0>>, n, request_2d_array(s, n))
        /\ UNCHANGED history

Get2DArray ==
    \E n \in ArraySizes :
        /\ OnS("get_2d_array", <<0, 0>>, n, get_2d_array(s, n))
        /\ UNCHANGED history

StartNextSample ==
    \* the counter is let run one past samples_per_pixel
    /\ s.current_pixel_sample_index <= s.samples_per_pixel
    /\ LET r == start_next_sample(s)
       IN  /\ OnS("start_next_sample", <<0, 0>>, 0, r)
           /\ Ghosts(started, IF setSeen THEN 0 ELSE nCalls + 1, setSeen,
                     exhausted \/ ~r.ok, exhaustedA \/ ~r.ok)

SetSampleNumber ==
    \E n \in 0..(s.samples_per_pixel + 1) :
        /\ OnS("set_sample_number", <<0, 0>>, n, set_sample_number(s, n))
        /\ Ghosts(started, 0, TRUE, exhausted, FALSE)

Reseed ==
    /\ OnS("reseed", <<0, 0>>, 0, reseed(s, 0))
    /\ UNCHANGED history

\* clone(&self): the copy is handed to another thread and not followed here
CloneAway ==
    /\ OnS("clone", <<0, 0>>, 0, Res(s, "none", << >>, << >>, TRUE, << >>))
    /\ UNCHANGED history

Next ==
    \/ StartPixel
    \/ Get1D
    \/ Get2D
    \/ Request2DArray
    \/ Get2DArray
    \/ StartNextSample
    \/ SetSampleNumber
    \/ Reseed
    \/ CloneAway

Spec == Init /\ [][Next]_vars

\* the same protocol over a one-pixel region, with the history kept
ExhBounds == { Bounds(0, 0, 1, 1) }

InitExh == InitWith(ExhBounds, 1..MaxSpp, {FALSE}, TRUE)

SpecExh == InitExh /\ [][Next]_vars

\* ----------------------------------------------------------- two samplers
\* s and c, built alike; c may be replaced by a clone of s. Each call goes
\* to s alone, to c alone, or to both with the same arguments.
Who == {"s", "c", "both"}

\* the two-sampler runs draw scalars from these dimensions only, and
\* register at most one array, of one of these sizes
PairDims == 0..2
PairArraySizes == {1}

Skip(smp) == Res(smp, "none", << >>, << >>, TRUE, << >>)

Drive(op, p, n, who, rs, rc) ==
    /\ fault = "none"
    /\ who = "both" => (sync \/ op = "start_pixel")
    /\ who # "both" => solo < MaxSolo
    /\ s' = IF who = "c" THEN s ELSE rs.smp
    /\ c' = IF who = "s" THEN c ELSE rc.smp
    /\ last' = IF who = "c" THEN Idle ELSE Call(op, p, n, rs)
    /\ lastc' = IF who = "s" THEN Idle ELSE Call(op, p, n, rc)
    /\ fault' = IF who # "c" /\ rs.fault # "none" THEN rs.fault
                ELSE IF who # "s" THEN rc.fault ELSE "none"
    /\ sync' = IF who # "both" THEN FALSE
               ELSE IF op = "start_pixel"
                    THEN s.samples_2d_array_sizes = c.samples_2d_array_sizes
                    ELSE sync
    /\ solo' = IF who # "both" THEN solo + 1
               ELSE IF sync' THEN 0 ELSE solo
    /\ UNCHANGED << bounds, track, history, cloned, th, lk >>

Driven(who) == IF who = "c" THEN {c} ELSE IF who = "s" THEN {s} ELSE {s, c}

PairStartPixel ==
    \E who \in Who, p \in PixelsOf(bounds) :
        Drive("start_pixel", p, 0, who, start_pixel(s, p), start_pixel(c, p))

PairGet1D ==
    \E who \in Who :
        /\ \A x \in Driven(who) : x.dimension \in PairDims
        /\ Drive("get_1d", <<0, 0>>, 0, who, get_1d(s), get_1d(c))

PairGet2D ==
    \E who \in Who :
        /\ \A x \in Driven(who) : x.dimension \in PairDims
        /\ Drive("get_2d", <<0, 0>>, 0, who, get_2d(s), get_2d(c))

PairRequest2DArray ==
    \E who \in Who, n \in PairArraySizes :
        /\ \A x \in Driven(who) : Len(x.samples_2d_array_sizes) = 0
        /\ Drive("request_2d_array", <<0, 0>>, n, who,
                 request_2d_array(s, n), request_2d_array(c, n))

PairGet2DArray ==
    \E who \in Who, n \in PairArraySizes :
        Drive("get_2d_array", <<0, 0>>, n, who,
              get_2d_array(s, n), get_2d_array(c, n))

PairStartNextSample ==
    \E who \in Who :
        /\ \A x \in Driven(who) :
              x.current_pixel_sample_index < x.samples_per_pixel
        /\ Drive("start_next_sample", <<0, 0>>, 0, who,
                 start_next_sample(s), start_next_sample(c))

PairSetSampleNumber ==
    \E who \in Who, n \in 0..s.samples_per_pixel :
        Drive("set_sample_number", <<0, 0>>, n, who,
              set_sample_number(s, n), set_sample_number(c, n))

PairReseed ==
    \E who \in Who :
        Drive("reseed", <<0, 0>>, 0, who, reseed(s, 0), reseed(c, 0))

\* c becomes a clone of s
CloneToC ==
    /\ fault = "none"
    /\ c' = Clone(s)
    /\ last' = Call("clone", <<0, 0>>, 0, Skip(s))
    /\ lastc' = Idle
    /\ sync' = TRUE
    /\ solo' = 0
    /\ cloned' = TRUE
    /\ UNCHANGED << s, bounds, fault, track, history, th, lk >>

InitPair == InitWith(ProtocolBounds, {MaxSpp}, {FALSE}, FALSE)

NextPair ==
    \/ PairStartPixel
    \/ PairGet1D
    \/ PairGet2D
    \/ PairRequest2DArray
    \/ PairGet2DArray
    \/ PairStartNextSample
    \/ PairSetSampleNumber
    \/ PairReseed
    \/ CloneToC

SpecPair == InitPair /\ [][NextPair]_vars

\* ------------------------------------------------- the dimensions drawn
\* one sampler, with or without sample_at_pixel_center, that registers
\* arrays of one cell per pixel-sample until their slots run off the prime
\* table, and draws scalars until the cursor does
DimBounds == { Bounds(0, 0, 2, 2) }

RequestSlot ==
    /\ Len(s.samples_2d_array_sizes) < MaxArrays + 1
    /\ OnS("request_2d_array", <<0, 0>>, 1, request_2d_array(s, 1))
    /\ UNCHANGED history

InitDim == InitWith(DimBounds, {MaxSpp}, BOOLEAN, FALSE)

NextDim ==
    \/ StartPixel
    \/ Get1D
    \/ Get2D
    \/ RequestSlot
    \/ StartNextSample

SpecDim == InitDim /\ [][NextDim]_vars

\* ---------------------------------------------------- the index mapper
\* regions of one pixel, of one column, of 4x4 pixels, across the 128
\* boundary, across zero, and larger than the maximum resolution
IndexBounds ==
    { Bounds(0, 0, 1, 1), Bounds(0, 0, 1, 3), Bounds(0, 0, 3, 2),
      Bounds(0, 0, 4, 4), Bounds(126, 126, 130, 130), Bounds(-2, -2, 1, 1),
      Bounds(0, 0, 200, 300) }

InitIndex == InitWith(IndexBounds, {MaxSpp}, {FALSE}, FALSE)

NextIndex ==
    \/ StartPixel
    \/ StartNextSample
    \/ SetSampleNumber

SpecIndex == InitIndex /\ [][NextIndex]_vars

\* ------------------------------------- get_index_for_sample, step by step
\* Threads share s through &self. Each call runs lines 132-161 one lock
\* operation or one assignment at a time; current_pixel is assigned (the
\* field is public) only while no call is running.
ConcBounds == { Bounds(0, 0, 2, 2) }

\* mutant: read() does not wait for the writer
CanRead_Always(l) == TRUE

\* RwLock::read / RwLock::write return once the lock can be taken
CanRead(l) == l.w = 0
CanWrite(l) == l.w = 0 /\ l.r = {}

\* mutant: the guard handed out by read() is exclusive
ReadGuard_Excl(l, t) == [l EXCEPT !.w = t]

\* the lock while t holds a guard from read() / write(), and after the
\* guard is dropped
ReadGuard(l, t) == [l EXCEPT !.r = @ \cup {t}]
WriteGuard(l, t) == [l EXCEPT !.w = t]
DropGuard(l, t) == [w |-> IF l.w = t THEN 0 ELSE l.w, r |-> l.r \ {t}]

\* thread t moves to pc with some locals changed
Step(t, loc) == th' = [th EXCEPT ![t] = loc]
Rest == << c, bounds, fault, last, lastc, history, track, sync, solo, cloned >>

\* self.current_pixel = p, by the owner of the sampler
PokePixel ==
    \E p \in PixelsOf(bounds) :
        /\ \A t \in Threads : th[t].pc = "idle"
        /\ s' = [s EXCEPT !.current_pixel = p]
        /\ UNCHANGED << th, lk, Rest >>

\* thread t asks for the index of sample t - 1
CallIndex ==
    \E t \in Threads :
        /\ th[t].pc = "idle"
        /\ Step(t, [IdleThread EXCEPT !.pc = "l132", !.n = t - 1])
        /\ UNCHANGED << s, lk, Rest >>

\* line 132: self.pixel_for_offset.read()
LockPixelRead ==
    \E t \in Threads :
        /\ th[t].pc = "l132"
        /\ CanRead(lk.pixel)
        /\ lk' = [lk EXCEPT !.pixel = ReadGuard(@, t)]
        /\ Step(t, [th[t] EXCEPT !.pc = "l132r"])
        /\ UNCHANGED << s, Rest >>

\* lines 132-133: the copy, the guard dropped, the comparison
ReadPixel ==
    \E t \in Threads :
        /\ th[t].pc = "l132r"
        /\ lk' = [lk EXCEPT !.pixel = DropGuard(@, t)]
        /\ Step(t, [th[t] EXCEPT
                      !.pfo = s.pixel_for_offset,
                      !.miss = (s.current_pixel # s.pixel_for_offset),
                      !.pc = IF s.current_pixel # s.pixel_for_offset
                             THEN "l135" ELSE "l160"])
        /\ UNCHANGED << s, Rest >>

\* line 135: self.offset_for_current_pixel.write()
LockOffsetWrite ==
    \E t \in Threads :
        /\ th[t].pc = "l135"
        /\ CanWrite(lk.offset)
        /\ lk' = [lk EXCEPT !.offset = WriteGuard(@, t)]
        /\ Step(t, [th[t] EXCEPT !.pc = "l136"])
        /\ UNCHANGED << s, Rest >>

\* lines 136-137
ZeroOffset ==
    \E t \in Threads :
        /\ th[t].pc = "l136"
        /\ s' = [s EXCEPT !.offset_for_current_pixel = 0]
        /\ Step(t, [th[t] EXCEPT !.pc = IF s.sample_stride > 1
                                         THEN "l151a" ELSE "l157"])
        /\ UNCHANGED << lk, Rest >>

\* line 151, i = 0 and then i = 1
AddOffsetTerm ==
    \E t \in Threads :
        /\ th[t].pc \in {"l151a", "l151b"}
        /\ s' = [s EXCEPT !.offset_for_current_pixel =
                    @ + OffsetTerm(s, IF th[t].pc = "l151a" THEN 0 ELSE 1)]
        /\ Step(t, [th[t] EXCEPT !.pc = IF th[t].pc = "l151a"
                                         THEN "l151b" ELSE "l155"])
        /\ UNCHANGED << lk, Rest >>

\* line 155
ReduceOffset ==
    \E t \in Threads :
        /\ th[t].pc = "l155"
        /\ s' = [s EXCEPT !.offset_for_current_pixel = @ % s.sample_stride]
        /\ Step(t, [th[t] EXCEPT !.pc = "l157"])
        /\ UNCHANGED << lk, Rest >>

\* line 157: self.pixel_for_offset.write()
LockPixelWrite ==
    \E t \in Threads :
        /\ th[t].pc = "l157"
        /\ CanWrite(lk.pixel)
        /\ lk' = [lk EXCEPT !.pixel = WriteGuard(@, t)]
        /\ Step(t, [th[t] EXCEPT !.pc = "l158"])
        /\ UNCHANGED << s, Rest >>

\* line 158
WritePixel ==
    \E t \in Threads :
        /\ th[t].pc = "l158"
        /\ s' = [s EXCEPT !.pixel_for_offset = s.current_pixel]
        /\ Step(t, [th[t] EXCEPT !.pc = "l159"])
        /\ UNCHANGED << lk, Rest >>

\* line 159: the block ends; the guards are dropped in reverse order of
\* declaration, the one on the pixel first
DropPixelGuard ==
    \E t \in Threads :
        /\ th[t].pc = "l159"
        /\ lk' = [lk EXCEPT !.pixel = DropGuard(@, t)]
        /\ Step(t, [th[t] EXCEPT !.pc = "l159b"])
        /\ UNCHANGED << s, Rest >>

DropOffsetGuard ==
    \E t \in Threads :
        /\ th[t].pc = "l159b"
        /\ lk' = [lk EXCEPT !.offset = DropGuard(@, t)]
        /\ Step(t, [th[t] EXCEPT !.pc = "l160"])
        /\ UNCHANGED << s, Rest >>

\* line 160: self.offset_for_current_pixel.read()
LockOffsetRead ==
    \E t \in Threads :
        /\ th[t].pc = "l160"
        /\ CanRead(lk.offset)
        /\ lk' = [lk EXCEPT !.offset = ReadGuard(@, t)]
        /\ Step(t, [th[t] EXCEPT !.pc = "l160r"])
        /\ UNCHANGED << s, Rest >>

\* line 160: the copy, the guard dropped
ReadOffset ==
    \E t \in Threads :
        /\ th[t].pc = "l160r"
        /\ lk' = [lk EXCEPT !.offset = DropGuard(@, t)]
        /\ Step(t, [th[t] EXCEPT !.off = s.offset_for_current_pixel,
                                 !.pc = "l161"])
        /\ UNCHANGED << s, Rest >>

\* line 161
ReturnIndex ==
    \E t \in Threads :
        /\ th[t].pc = "l161"
        /\ Step(t, [IdleThread EXCEPT
                      !.ret = th[t].off + th[t].n * s.sample_stride,
                      !.calls = th[t].calls])
        /\ UNCHANGED << s, lk, Rest >>

InitConc == InitWith(ConcBounds, {1}, {FALSE}, FALSE)

NextConc ==
    \/ PokePixel
    \/ CallIndex
    \/ LockPixelRead
    \/ ReadPixel
    \/ LockOffsetWrite
    \/ ZeroOffset
    \/ AddOffsetTerm
    \/ ReduceOffset
    \/ LockPixelWrite
    \/ WritePixel
    \/ DropPixelGuard
    \/ DropOffsetGuard
    \/ LockOffsetRead
    \/ ReadOffset
    \/ ReturnIndex

SpecConc == InitConc /\ [][NextConc]_vars

\* the same threads, making at most MaxCalls calls between them; a thread
\* inside get_index_for_sample that can take its next step is scheduled
RECURSIVE CallsMade(_)
CallsMade(n) == IF n = 0 THEN 0 ELSE th[n].calls + CallsMade(n - 1)

CallCounted ==
    \E t \in Threads :
        /\ th[t].pc = "idle"
        /\ CallsMade(NThreads) < MaxCalls
        /\ Step(t, [IdleThread EXCEPT !.pc = "l132", !.n = t - 1,
                                      !.calls = th[t].calls + 1])
        /\ UNCHANGED << s, lk, Rest >>

NextBatch ==
    \/ PokePixel
    \/ CallCounted
    \/ LockPixelRead
    \/ ReadPixel
    \/ LockOffsetWrite
    \/ ZeroOffset
    \/ AddOffsetTerm
    \/ ReduceOffset
    \/ LockPixelWrite
    \/ WritePixel
    \/ DropPixelGuard
    \/ DropOffsetGuard
    \/ LockOffsetRead
    \/ ReadOffset
    \/ ReturnIndex

Progress(t) == th[t].pc # "idle" /\ NextBatch /\ th'[t] # th[t]

SpecBatch ==
    InitConc /\ [][NextBatch]_vars /\ \A t \in Threads : WF_vars(Progress(t))

\* ================================================================ claims

\* ---- C1 ----
\* C1, as stated: start_next_sample returns false exactly when the
\* incremented current_pixel_sample_index has reached samples_per_pixel, and
\* once it has returned false it never returns true again until the next
\* start_pixel, whatever other calls (set_sample_number among them) come
\* between.
C1_Original ==
    [][ last'.op = "start_next_sample" =>
          /\ last'.ok = (s'.current_pixel_sample_index < s'.samples_per_pixel)
          /\ (started /\ exhausted => ~last'.ok) ]_vars

\* C1, amended: start_next_sample returns false exactly when the incremented
\* current_pixel_sample_index has reached samples_per_pixel; the k-th call
\* after start_pixel, with no set_sample_number between, returns true iff
\* k < samples_per_pixel; and once it has returned false it never returns
\* true again under any sequence of get_1d, get_2d, get_2d_array,
\* request_2d_array, reseed, clone and start_next_sample calls, that is
\* until the next start_pixel or set_sample_number.
C1_Exhaustion ==
    [][ last'.op = "start_next_sample" =>
          /\ last'.ok = (s'.current_pixel_sample_index < s'.samples_per_pixel)
          /\ (~setSeen' => (last'.ok <=> nCalls' < s'.samples_per_pixel))
          /\ (exhaustedA => ~last'.ok) ]_vars

\* start_next_sample has returned false a second time in a row of calls
\* with other operations between
C1_Witness ==
    /\ last.op = "start_next_sample"
    /\ ~last.ok
    /\ started
    /\ ~setSeen
    /\ nCalls > s.samples_per_pixel
    /\ s.samples_per_pixel > 1
    /\ Len(s.samples_2d_array_sizes) > 0

\* ---- C2 ----
\* C2: no get_1d or get_2d evaluates sample_dimension at a dimension d with
\* array_start_dim <= d < array_end_dim, neither as the single dimension of
\* get_1d nor as one of the two dimensions of get_2d.
C2_NoArrayDims ==
    last.op \in {"get_1d", "get_2d"} =>
        \A i \in 1..Len(last.used) :
            ~( s.array_start_dim <= last.used[i][2]
               /\ last.used[i][2] < s.array_end_dim )

\* a get_2d that started at dimension 4 or inside the window of a
\* registered array, and was moved past it
C2_Witness ==
    /\ last.op = "get_2d"
    /\ fault = "none"
    /\ s.array_end_dim = s.array_start_dim + 2
    /\ last.used = << <<s.interval_sample_index, s.array_end_dim + 1>>,
                      <<s.interval_sample_index, s.array_end_dim>> >>
    /\ s.dimension = s.array_end_dim + 2

\* ---- C3 ----
\* C3: in a pixel-sample with 0 <= current_pixel_sample_index <
\* samples_per_pixel, the j-th get_2d_array call since the cursor was reset,
\* made with the size n_j registered for slot j, returns exactly n_j pairs,
\* the cells [index * n_j, index * n_j + n_j) of the j-th buffer, which lie
\* inside the buffer, and advances the array offset by exactly one.
C3_ArraySlice ==
    [][ ( /\ last'.op = "get_2d_array"
          /\ s.array_2d_offset < Len(s.samples_2d_array_sizes)
          /\ last'.n = s.samples_2d_array_sizes[s.array_2d_offset + 1]
          /\ s.current_pixel_sample_index >= 0
          /\ s.current_pixel_sample_index < s.samples_per_pixel )
        => LET j     == s.array_2d_offset + 1
               n     == last'.n
               buf   == s.sample_array_2d[j]
               start == s.current_pixel_sample_index * n
           IN  /\ fault' = "none"
               /\ Len(last'.arr) = n
               /\ start + n <= Len(buf)
               /\ \A i \in 1..n : last'.arr[i] = buf[start + i]
               /\ s'.array_2d_offset = s.array_2d_offset + 1
               /\ s'.sample_array_2d = s.sample_array_2d ]_vars

\* the second array of the second pixel-sample has been handed out, filled
\* by start_pixel
C3_Witness ==
    /\ last.op = "get_2d_array"
    /\ Len(last.arr) = 2
    /\ s.current_pixel_sample_index = 1
    /\ s.array_2d_offset = 2
    /\ last.arr[1] # Zero2f

\* ---- C4 ----
\* C4: get_1d and get_2d leave the array buffers, the registered sizes and
\* the array offsets unchanged, and get_2d_array leaves dimension and
\* interval_sample_index unchanged; so a scalar draw returns the same values
\* before and after an array access, and an array access returns the same
\* cells before and after a scalar draw.
C4_Frame ==
    [][ /\ last'.op \in {"get_1d", "get_2d"} =>
              /\ s'.sample_array_1d = s.sample_array_1d
              /\ s'.sample_array_2d = s.sample_array_2d
              /\ s'.samples_1d_array_sizes = s.samples_1d_array_sizes
              /\ s'.samples_2d_array_sizes = s.samples_2d_array_sizes
              /\ s'.array_1d_offset = s.array_1d_offset
              /\ s'.array_2d_offset = s.array_2d_offset
              /\ \A n \in ArraySizes :
                    /\ get_2d_array(s', n).arr = get_2d_array(s, n).arr
                    /\ get_2d_array(s', n).fault = get_2d_array(s, n).fault
        /\ last'.op = "get_2d_array" =>
              /\ s'.dimension = s.dimension
              /\ s'.interval_sample_index = s.interval_sample_index
              /\ get_1d(s').ret = get_1d(s).ret
              /\ get_1d(s').used = get_1d(s).used
              /\ get_2d(s').ret = get_2d(s).ret
              /\ get_2d(s').used = get_2d(s).used ]_vars

\* an array was handed out after scalar draws had moved the cursor
C4_Witness ==
    /\ last.op = "get_2d_array"
    /\ Len(last.arr) > 0
    /\ last.arr[1] # Zero2f
    /\ s.dimension > 0
    /\ s.current_pixel_sample_index > 0

\* ---- C10 ----
\* C10: a get_2d_array call that addresses a slot for which no array is
\* registered (the array offset has reached the number of registered
\* arrays; in particular none was ever requested) does not return normally:
\* it stops with an assertion fault.
C10_FaultsUnregistered ==
    [][ ( /\ last'.op = "get_2d_array"
          /\ s.array_2d_offset >= Len(s.samples_2d_array_sizes) )
        => fault' # "none" ]_vars

\* ---- C7 ----
\* C7, as stated: (s1 * mult_inverse[0]) mod s0 = 1 and
\* (s0 * mult_inverse[1]) mod s1 = 1 for every sample_bounds.
C7_Original ==
    /\ (s.base_scales[2] * s.mult_inverse[1]) % s.base_scales[1] = 1
    /\ (s.base_scales[1] * s.mult_inverse[2]) % s.base_scales[2] = 1

\* C7, amended: for every sample_bounds, s1 * mult_inverse[0] is congruent
\* to 1 modulo s0 and s0 * mult_inverse[1] is congruent to 1 modulo s1, with
\* 0 <= mult_inverse[i] < base_scales[i]; the remainders are 1 whenever the
\* scale exceeds 1, and 0 for a scale of 1 (an axis of extent at most 1).
C7_InverseIdentity ==
    /\ (s.base_scales[2] * s.mult_inverse[1]) % s.base_scales[1]
          = 1 % s.base_scales[1]
    /\ (s.base_scales[1] * s.mult_inverse[2]) % s.base_scales[2]
          = 1 % s.base_scales[2]
    /\ \A i \in 1..2 :
          /\ 0 <= s.mult_inverse[i]
          /\ s.mult_inverse[i] < s.base_scales[i]
          /\ (s.base_scales[i] > 1 =>
                (s.base_scales[3 - i] * s.mult_inverse[i]) % s.base_scales[i] = 1)

\* a sampler built over a region larger than the maximum resolution, with
\* inverses that are not 1
C7_Witness ==
    /\ s.base_scales = <<128, 243>>
    /\ s.mult_inverse[1] > 1
    /\ s.mult_inverse[2] > 1

\* ---- C8 ----
\* the offset of the sampler's current pixel, as the claim writes it
C8_Offset(smp) ==
    IF smp.sample_stride <= 1 THEN 0
    ELSE ( inverse_radical_inverse(2, smp.current_pixel[1] % 128,
                                   smp.base_exponents[1])
             * (smp.sample_stride \div smp.base_scales[1]) * smp.mult_inverse[1]
         + inverse_radical_inverse(3, smp.current_pixel[2] % 128,
                                   smp.base_exponents[2])
             * (smp.sample_stride \div smp.base_scales[2]) * smp.mult_inverse[2]
         ) % smp.sample_stride

\* C8: whenever get_index_for_sample(n) has been called for the current
\* pixel (by start_pixel with n = 0, by set_sample_number(n), by
\* start_next_sample with n the new sample number), it has returned
\* offset + n * sample_stride with the offset above, 0 <= offset <
\* sample_stride when sample_stride > 1, and the cache holds exactly the
\* current pixel and that offset, whatever the cache held before.
C8_IndexFormula ==
    last.op \in {"start_pixel", "set_sample_number", "start_next_sample"} =>
        /\ s.interval_sample_index =
              C8_Offset(s) + s.current_pixel_sample_index * s.sample_stride
        /\ s.pixel_for_offset = s.current_pixel
        /\ s.offset_for_current_pixel = C8_Offset(s)
        /\ (s.sample_stride > 1 =>
              0 <= C8_Offset(s) /\ C8_Offset(s) < s.sample_stride)

\* an index was computed for a later sample of a pixel with negative
\* coordinates, after the cache had held another pixel
C8_Witness ==
    /\ last.op = "set_sample_number"
    /\ s.current_pixel = <<-1, -2>>
    /\ s.current_pixel_sample_index = 2
    /\ s.offset_for_current_pixel > 0

\* ---- C9 ----
\* C9: over a sample region of extent at most 128 on each axis, any two
\* distinct (pixel, sample number) pairs with both pixels inside the region
\* get distinct global indices from get_index_for_sample.
C9_UniqueIndices ==
    ( /\ last.op \in {"start_pixel", "set_sample_number", "start_next_sample"}
      /\ bounds.p_max[1] - bounds.p_min[1] <= 128
      /\ bounds.p_max[2] - bounds.p_min[2] <= 128
      /\ s.current_pixel \in PixelsOf(bounds) )
    => \A q \in PixelsOf(bounds), m \in 0..(MaxSpp + 1) :
          <<q, m>> # <<s.current_pixel, s.current_pixel_sample_index>> =>
              set_sample_number(start_pixel(s, q).smp, m).smp.interval_sample_index
                  # s.interval_sample_index

\* ---- C5 ----
\* C5: two samplers of the same configuration and the same registered
\* arrays, the second possibly a clone of the first, that receive the same
\* calls from a common start_pixel (or from the clone) on, evaluate the same
\* (global index, dimension) pairs and hand back identical values at every
\* step, whichever pixels each went through before (whatever its
\* pixel-offset cache held).
C5_Determinism ==
    (sync /\ last.op # "clone") =>
        /\ last.op = lastc.op
        /\ last.ret = lastc.ret
        /\ last.arr = lastc.arr
        /\ last.ok = lastc.ok
        /\ last.used = lastc.used
        /\ last.fault = lastc.fault
        /\ s.interval_sample_index = c.interval_sample_index

\* both samplers have drawn the same pair for the second sample of pixel
\* (1, 0), after runs that had left them apart
C5_Witness ==
    /\ sync
    /\ last.op = "get_2d"
    /\ lastc.op = "get_2d"
    /\ Len(lastc.ret) = 2
    /\ c.current_pixel = <<1, 0>>
    /\ c.current_pixel_sample_index = 1
    /\ c.dimension = 4

\* ---- C6 ----
\* C6: clone() returns a sampler whose every field (configuration, cursor,
\* registered sizes, array buffers, cached pixel and offset) equals the
\* source's at the time of the call and leaves the source as it was; after
\* it no call on the clone changes any field of the source, and no call on
\* the source changes any field of the clone.
C6_CloneIndependent ==
    [][ /\ last'.op = "clone" => (c' = s /\ s' = s)
        /\ (last'.op = "idle" /\ lastc'.op # "idle") => s' = s
        /\ (lastc'.op = "idle" /\ last'.op \notin {"idle", "clone"}) => c' = c
      ]_vars

\* a clone taken in the middle of a pixel, with a filled array, has since
\* been moved to its next sample while the source stayed
C6_Witness ==
    /\ cloned
    /\ lastc.op = "start_next_sample"
    /\ last.op = "idle"
    /\ c.current_pixel = <<1, 0>>
    /\ c.current_pixel_sample_index = s.current_pixel_sample_index + 1
    /\ c.sample_array_2d = s.sample_array_2d
    /\ Len(c.sample_array_2d) = 1
    /\ c.sample_array_2d[1][1] # Zero2f
    /\ c.pixel_for_offset = s.pixel_for_offset
    /\ s.dimension > 0

\* ---- C11 ----
\* C11: when a registered 2D array is still unconsumed at the current array
\* offset and get_2d_array(n) is called with n different from the size
\* registered for that slot, the call stops on the size assertion, hands
\* back no samples, and leaves the array offset, the buffers and the cursor
\* (the whole sampler) as they were.
C11_SizeMismatch ==
    [][ ( /\ last'.op = "get_2d_array"
          /\ s.array_2d_offset < Len(s.samples_2d_array_sizes)
          /\ last'.n # s.samples_2d_array_sizes[s.array_2d_offset + 1] )
        => /\ fault' = "assert"
           /\ last'.arr = << >>
           /\ s'.array_2d_offset = s.array_2d_offset
           /\ s'.sample_array_2d = s.sample_array_2d
           /\ s'.dimension = s.dimension
           /\ s' = s ]_vars

\* the second array of a pixel-sample was asked for with the size of the
\* first (wrong order), the sample index being in range
C11_Witness ==
    /\ last.op = "get_2d_array"
    /\ fault = "assert"
    /\ s.array_2d_offset = 1
    /\ s.samples_2d_array_sizes = <<1, 2>>
    /\ last.n = 1
    /\ s.current_pixel_sample_index < s.samples_per_pixel
    /\ s.sample_array_2d[2][1] # Zero2f

\* ---- C12 ----
\* C12: sample_dimension(index, dim) for dim >= 2 stops the program if and
\* only if dim >= PRIME_TABLE_SIZE, and never for dim 0 or 1; so a get_1d or
\* get_2d whose cursor has reached such a dimension stops instead of handing
\* back a value (and a draw stops only for that reason), and start_pixel
\* stops in the fill exactly when the slots reserved for the registered
\* arrays reach it.
C12_PrimeTable ==
    [][ /\ \A dim \in 0..(PRIME_TABLE_SIZE + 2) :
              LET v == sample_dimension(s', s'.interval_sample_index, dim)
              IN  /\ dim >= 2 => (v = Fatal <=> dim >= PRIME_TABLE_SIZE)
                  /\ dim < 2 => v # Fatal
        /\ last'.op \in {"get_1d", "get_2d"} =>
              /\ s.dimension >= PRIME_TABLE_SIZE => fault' = "panic"
              /\ fault' = "panic" <=>
                    \E i \in 1..Len(last'.used) :
                        last'.used[i][2] >= PRIME_TABLE_SIZE
              /\ fault' = "panic" => last'.ret = << >>
              /\ fault' \in {"none", "panic"}
        /\ last'.op = "start_pixel" =>
              (fault' = "panic" <=>
                  \E i \in 1..Len(s.samples_2d_array_sizes) :
                      ArrayDim(s, i) + 1 >= PRIME_TABLE_SIZE) ]_vars

\* start_pixel stopped while filling the third registered array, whose
\* second slot is the first dimension beyond the table
C12_Witness ==
    /\ last.op = "start_pixel"
    /\ fault = "panic"
    /\ Len(s.samples_2d_array_sizes) = 3
    /\ ArrayDim(s, 3) + 1 = PRIME_TABLE_SIZE
    /\ s.sample_array_2d[2][1] # Zero2f

\* ---- C13 ----
\* C13: with sample_at_pixel_center set, sample_dimension is exactly 1/2 for
\* dimension 0 and for dimension 1 at every index (so the first get_2d of a
\* pixel-sample is (1/2, 1/2)), and for every dimension >= 2 it is the
\* scrambled radical inverse of the same (index, dimension) as without the
\* flag; without the flag dimension 0 is the base-2 radical inverse of
\* index >> base_exponents[0] and dimension 1 the base-3 radical inverse of
\* index / base_scales[1].
C13_PixelCenter ==
    /\ \A n \in 0..MaxSpp, dim \in 0..(PRIME_TABLE_SIZE - 1) :
          LET idx == s.offset_for_current_pixel + n * s.sample_stride
              on  == [s EXCEPT !.sample_at_pixel_center = TRUE]
              off == [s EXCEPT !.sample_at_pixel_center = FALSE]
          IN  /\ dim <= 1 => sample_dimension(on, idx, dim) = Frac(1, 2)
              /\ dim >= 2 =>
                    /\ sample_dimension(on, idx, dim) = sample_dimension(off, idx, dim)
                    /\ sample_dimension(on, idx, dim) = scrambled_radical_inverse(dim, idx)
              /\ sample_dimension(off, idx, 0)
                    = radical_inverse(0, idx \div Pow(2, s.base_exponents[1]))
              /\ sample_dimension(off, idx, 1)
                    = radical_inverse(1, idx \div s.base_scales[2])
    /\ ( /\ last.op = "get_2d"
         /\ fault = "none"
         /\ s.dimension = 2 )
       => IF s.sample_at_pixel_center
          THEN last.ret = << Frac(1, 2), Frac(1, 2) >>
          ELSE last.ret =
                 << radical_inverse(0, s.interval_sample_index
                                          \div Pow(2, s.base_exponents[1])),
                    radical_inverse(1, s.interval_sample_index
                                          \div s.base_scales[2]) >>

\* the first get_2d of the second sample of pixel (1, 1), at the pixel
\* centre
C13_Witness ==
    /\ last.op = "get_2d"
    /\ s.sample_at_pixel_center
    /\ s.dimension = 2
    /\ last.ret = << Half, Half >>
    /\ s.current_pixel = <<1, 1>>
    /\ s.current_pixel_sample_index = 1
    /\ s.interval_sample_index > s.sample_stride

\* ---- C14 ----
\* the extent of the sample region along axis i, and whether x is a power of b
C14_Extent(i) == bounds.p_max[i] - bounds.p_min[i]
C14_IsPower(b, x) == \E e \in 0..8 : Pow(b, e) = x

\* C14, as stated: base_scales[0] is a power of 2 and base_scales[1] a power
\* of 3, each the smallest power of its base that is >= the axis extent,
\* capped at 128 so that no base scale exceeds 128; base_exponents[i] is the
\* exponent of base_scales[i], and sample_stride is the product of the two
\* scales.
C14_Original ==
    /\ \A i \in 1..2 :
          LET b == BaseOf(i - 1)
          IN  /\ C14_IsPower(b, s.base_scales[i])
              /\ s.base_scales[i] <= 128
              /\ C14_Extent(i) <= 128 =>
                    /\ s.base_scales[i] >= C14_Extent(i)
                    /\ s.base_scales[i] > 1 =>
                          s.base_scales[i] \div b < C14_Extent(i)
              /\ Pow(b, s.base_exponents[i]) = s.base_scales[i]
    /\ s.sample_stride = s.base_scales[1] * s.base_scales[2]

\* C14, amended: base_scales[0] is a power of 2 and base_scales[1] a power
\* of 3, each the smallest power of its base that is >= min(axis extent,
\* 128); so base_scales[0] <= 128, while base_scales[1] is 243 for every
\* extent above 81; base_exponents[i] is the exponent of base_scales[i], and
\* sample_stride is the product of the two scales.
C14_BaseScales ==
    /\ \A i \in 1..2 :
          LET b   == BaseOf(i - 1)
              cap == Min(C14_Extent(i), 128)
          IN  /\ C14_IsPower(b, s.base_scales[i])
              /\ s.base_scales[i] >= cap
              /\ s.base_scales[i] > 1 => s.base_scales[i] \div b < cap
              /\ C14_Extent(i) > 81 => s.base_scales[i] = IF i = 1 THEN 128 ELSE 243
              /\ Pow(b, s.base_exponents[i]) = s.base_scales[i]
    /\ s.base_scales[1] <= 128
    /\ s.base_scales[2] <= 243
    /\ s.sample_stride = s.base_scales[1] * s.base_scales[2]

\* a sampler over a region of 200 x 300 pixels, in use
C14_Witness ==
    /\ C14_Extent(1) = 200
    /\ C14_Extent(2) = 300
    /\ s.base_exponents = <<7, 5>>
    /\ s.sample_stride = 31104
    /\ last.op = "start_pixel"

\* ---- C15 ----
\* C15: start_pixel(p), from any state, sets current_pixel = p,
\* current_pixel_sample_index = 0, dimension = 0, both array offsets = 0 and
\* array_end_dim = array_start_dim + (number of registered 1D arrays) +
\* 2 * (number of registered 2D arrays); and its closing assertion, that
\* array_end_dim is the dimension reached after the last filled 2D array,
\* never fails, whatever calls were made before.
C15_StartPixel ==
    last.op = "start_pixel" =>
        /\ s.current_pixel = last.p
        /\ s.current_pixel_sample_index = 0
        /\ s.dimension = 0
        /\ s.array_1d_offset = 0
        /\ s.array_2d_offset = 0
        /\ s.array_end_dim = s.array_start_dim + Len(s.samples_1d_array_sizes)
                                + 2 * Len(s.samples_2d_array_sizes)
        /\ Len(s.sample_array_1d) = Len(s.samples_1d_array_sizes)
        /\ Len(s.sample_array_2d) = Len(s.samples_2d_array_sizes)
        /\ fault # "assert"

\* start_pixel has returned on pixel (1, 0) with two arrays registered and
\* filled
C15_Witness ==
    /\ last.op = "start_pixel"
    /\ last.p = <<1, 0>>
    /\ fault = "none"
    /\ Len(s.samples_2d_array_sizes) = 2
    /\ s.array_end_dim = 9
    /\ s.sample_array_2d[2][1] # Zero2f

\* ---- C16 ----
\* C16: set_sample_number(n), n >= 0, sets current_pixel_sample_index = n,
\* interval_sample_index = get_index_for_sample(n), dimension = 0 and both
\* array offsets = 0, and returns n < samples_per_pixel; and from any state,
\* with current_pixel_sample_index = k, set_sample_number(k + 1) and
\* start_next_sample() leave the same sampler and return the same value.
C16_SetSampleNumber ==
    /\ last.op = "set_sample_number" =>
          /\ s.current_pixel_sample_index = last.n
          /\ s.interval_sample_index = get_index_for_sample(s, last.n)
          /\ s.interval_sample_index = ComputeOffset(s) + last.n * s.sample_stride
          /\ s.dimension = 0
          /\ s.array_1d_offset = 0
          /\ s.array_2d_offset = 0
          /\ last.ok = (last.n < s.samples_per_pixel)
          /\ fault = "none"
    /\ LET a == set_sample_number(s, s.current_pixel_sample_index + 1)
           b == start_next_sample(s)
       IN  /\ a.smp = b.smp
           /\ a.ok = b.ok
           /\ a.fault = b.fault

\* set_sample_number(1) has returned true on pixel (1, 0) of a sampler with
\* a filled array; from there start_next_sample and set_sample_number(2)
\* both report that no sample is left
C16_Witness ==
    /\ last.op = "set_sample_number"
    /\ last.n = 1
    /\ last.ok
    /\ s.current_pixel = <<1, 0>>
    /\ s.interval_sample_index = 3
    /\ Len(s.sample_array_2d) = 1
    /\ s.sample_array_2d[1][1] # Zero2f
    /\ ~start_next_sample(s).ok
    /\ ~set_sample_number(s, 2).ok

\* ---- C17 ----
\* C17: a call of get_index_for_sample that finds the cached pixel equal to
\* current_pixel (a hit) takes read guards only and changes neither the
\* cached pixel nor the cached offset, and a thread waiting for a read guard
\* is never held up by readers, only by a thread on the miss path that holds
\* the write guard; the cached pair is written only by a thread on the miss
\* path, and every write of it, to the offset or to the pixel, happens while
\* that thread holds the exclusive guard on the offset.
C17_LockDiscipline ==
    [][ /\ \A t \in Threads :
              /\ ( \/ lk'.offset.w = t /\ lk.offset.w # t
                   \/ lk'.pixel.w = t /\ lk.pixel.w # t )
                 => /\ th[t].miss
                    /\ th[t].pfo # s.current_pixel
              /\ ( /\ th'[t].pc \in {"l132", "l160"}
                   /\ th'[t].pc = "l160" => ~th'[t].miss )
                 => \/ CanRead(IF th'[t].pc = "l132" THEN lk'.pixel ELSE lk'.offset)
                    \/ \E u \in Threads \ {t} :
                          /\ th'[u].miss
                          /\ (IF th'[t].pc = "l132" THEN lk'.pixel ELSE lk'.offset).w = u
        /\ ( \/ s'.pixel_for_offset # s.pixel_for_offset
             \/ s'.offset_for_current_pixel # s.offset_for_current_pixel )
           => \E t \in Threads :
                 /\ th'[t] # th[t]
                 /\ th[t].miss
                 /\ lk.offset.w = t
                 /\ lk'.offset.w = t
                 /\ s'.pixel_for_offset # s.pixel_for_offset => lk.pixel.w = t
      ]_vars

\* two threads hold the read guard on the offset at once, both on a hit of
\* a pixel other than (0, 0), whose offset an earlier miss installed
C17_Witness ==
    /\ lk.offset.r = {1, 2}
    /\ ~th[1].miss
    /\ ~th[2].miss
    /\ th[1].pc = "l160r"
    /\ th[2].pc = "l160r"
    /\ s.current_pixel = <<1, 1>>
    /\ s.pixel_for_offset = <<1, 1>>
    /\ s.offset_for_current_pixel = ComputeOffset(s)
    /\ s.offset_for_current_pixel > 0

\* ---- C18 ----
\* C18: get_1d moves the cursor to array_end_dim only when dimension lies in
\* [array_start_dim, array_end_dim), and get_2d only when dimension or
\* dimension + 1 lies in that window; in every other state, an empty window
\* included, get_1d returns sample_dimension(interval_sample_index,
\* dimension) and advances dimension by exactly 1, and get_2d returns the
\* pair of sample_dimension at dimension and dimension + 1 and advances
\* dimension by exactly 2.
C18_ScalarDraws ==
    [][ LET InW(d) == s.array_start_dim <= d /\ d < s.array_end_dim
            idx    == s.interval_sample_index
        IN  /\ (last'.op = "get_1d" /\ fault' = "none") =>
                  IF InW(s.dimension)
                  THEN /\ s'.dimension = s.array_end_dim + 1
                       /\ last'.ret = << sample_dimension(s, idx, s.array_end_dim) >>
                  ELSE /\ s'.dimension = s.dimension + 1
                       /\ last'.ret = << sample_dimension(s, idx, s.dimension) >>
            /\ (last'.op = "get_2d" /\ fault' = "none") =>
                  IF InW(s.dimension) \/ InW(s.dimension + 1)
                  THEN /\ s'.dimension = s.array_end_dim + 2
                       /\ last'.ret = << sample_dimension(s, idx, s.array_end_dim),
                                         sample_dimension(s, idx, s.array_end_dim + 1) >>
                  ELSE /\ s'.dimension = s.dimension + 2
                       /\ last'.ret = << sample_dimension(s, idx, s.dimension),
                                         sample_dimension(s, idx, s.dimension + 1) >>
      ]_vars

\* ---- C19 ----
\* C19: after start_pixel(p), for every registered 2D array r (from 0) of
\* size n and every cell j in 0 .. n * samples_per_pixel - 1, the cell holds
\* (sample_dimension(I_j, D_r), sample_dimension(I_j, D_r + 1)), with I_j
\* the global index of sample j of pixel p (offset of p + j * sample_stride)
\* and D_r = array_start_dim + (number of 1D arrays) + 2r; the slots of
\* different arrays are disjoint and all lie in [array_start_dim,
\* array_end_dim).
C19_ArrayFill ==
    (last.op = "start_pixel" /\ fault = "none") =>
        \A r \in 0..(Len(s.samples_2d_array_sizes) - 1) :
            LET n   == s.samples_2d_array_sizes[r + 1]
                D_r == s.array_start_dim + Len(s.samples_1d_array_sizes) + 2 * r
            IN  /\ Len(s.sample_array_2d[r + 1]) = n * s.samples_per_pixel
                /\ \A j \in 0..(n * s.samples_per_pixel - 1) :
                      LET I_j == ComputeOffset([s EXCEPT !.current_pixel = last.p])
                                    + j * s.sample_stride
                      IN  s.sample_array_2d[r + 1][j + 1] =
                              << sample_dimension(s, I_j, D_r),
                                 sample_dimension(s, I_j, D_r + 1) >>
                /\ s.array_start_dim <= D_r
                /\ D_r + 1 < s.array_end_dim
                /\ \A q \in 0..(Len(s.samples_2d_array_sizes) - 1) :
                      q # r => {D_r, D_r + 1} \cap
                                 { s.array_start_dim + Len(s.samples_1d_array_sizes) + 2 * q,
                                   s.array_start_dim + Len(s.samples_1d_array_sizes) + 2 * q + 1 }
                               = {}

\* start_pixel((1, 0)) has filled an array of 2 and an array of 1 for two
\* samples per pixel; the last cell of the first is drawn at index 1 + 3 * 2
C19_Witness ==
    /\ last.op = "start_pixel"
    /\ last.p = <<1, 0>>
    /\ fault = "none"
    /\ s.samples_per_pixel = 2
    /\ s.samples_2d_array_sizes = <<2, 1>>
    /\ s.sample_array_2d[1][4] = << scrambled_radical_inverse(5, 7),
                                    scrambled_radical_inverse(6, 7) >>
    /\ s.sample_array_2d[2][2] = << scrambled_radical_inverse(7, 3),
                                    scrambled_radical_inverse(8, 3) >>

\* ---- C20 ----
\* C20: whenever start_pixel, start_next_sample or set_sample_number has
\* completed, interval_sample_index = offset(current_pixel) +
\* current_pixel_sample_index * sample_stride, which is
\* get_index_for_sample(current_pixel_sample_index), and this stays so
\* across the get_1d, get_2d, get_2d_array, request_2d_array and reseed (and
\* clone) calls that follow; start_next_sample computes the index for the
\* old sample number plus one and then increments the counter.
C20_IndexInvariant ==
    [][ /\ s'.interval_sample_index =
              ComputeOffset(s') + s'.current_pixel_sample_index * s'.sample_stride
        /\ s'.interval_sample_index =
              get_index_for_sample(s', s'.current_pixel_sample_index)
        /\ last'.op \notin {"start_pixel", "start_next_sample", "set_sample_number"}
              => /\ s'.interval_sample_index = s.interval_sample_index
                 /\ s'.current_pixel_sample_index = s.current_pixel_sample_index
                 /\ s'.current_pixel = s.current_pixel
        /\ last'.op = "start_next_sample"
              => /\ s'.interval_sample_index =
                        ComputeOffset(s) + (s.current_pixel_sample_index + 1)
                                              * s.sample_stride
                 /\ s'.current_pixel_sample_index = s.current_pixel_sample_index + 1
      ]_vars

\* start_next_sample has moved pixel (1, 0) to its second sample, from a
\* state in which arrays were registered
C20_Witness ==
    /\ last.op = "start_next_sample"
    /\ s.current_pixel = <<1, 0>>
    /\ s.current_pixel_sample_index = 1
    /\ s.offset_for_current_pixel = 1
    /\ s.interval_sample_index = 3
    /\ Len(s.sample_array_2d) > 0

\* ---- C21 ----
\* C21: once the array offset equals the number of registered 2D arrays,
\* get_2d_array(n) returns an empty sequence for every n, asserts neither
\* the size nor the sample index, and leaves the whole sampler as it was;
\* also when current_pixel_sample_index >= samples_per_pixel.
C21_EmptyWhenConsumed ==
    [][ ( /\ last'.op = "get_2d_array"
          /\ s.array_2d_offset = Len(s.sample_array_2d) )
        => /\ fault' = "none"
           /\ last'.arr = << >>
           /\ s' = s
           /\ \A n \in ArraySizes \cup {0, 3} :
                 /\ get_2d_array(s, n).arr = << >>
                 /\ get_2d_array(s, n).fault = "none"
                 /\ get_2d_array(s, n).smp = s ]_vars

\* both registered arrays of the second pixel-sample were consumed, and one
\* more get_2d_array returned nothing
C21_Witness ==
    /\ last.op = "get_2d_array"
    /\ last.arr = << >>
    /\ fault = "none"
    /\ Len(s.sample_array_2d) = 2
    /\ s.array_2d_offset = 2
    /\ s.current_pixel_sample_index = 1
    /\ s.sample_array_2d[2][1] # Zero2f

\* ---- C22 ----
\* C22: with threads calling get_index_for_sample concurrently (each a
\* finite number of times) on one shared sampler, current_pixel fixed during the calls and the cache holding any
\* pixel with the offset installed for it, every call eventually returns
\* (the two locks never deadlock) and returns exactly offset(current_pixel)
\* + sample_num * sample_stride; and the offset a call reads at line 160 is
\* never the zeroed or partly accumulated value another thread's miss is
\* writing.
C22_ConcurrentIndex ==
    /\ [][ \A t \in Threads :
              /\ (th[t].pc = "l161" /\ th'[t].pc = "idle") =>
                    th'[t].ret = ComputeOffset(s) + th[t].n * s.sample_stride
              /\ (th[t].pc = "l160r" /\ th'[t].pc = "l161") =>
                    /\ th'[t].off = ComputeOffset(s)
                    /\ lk.offset.w = 0 ]_vars
    /\ \A t \in Threads : (th[t].pc # "idle") ~> (th[t].pc = "idle")

\* thread 1 has installed the pair for a pixel whose offset is not zero and
\* waits for the read guard on the offset, while thread 2, whose miss was
\* decided before, holds the write guard and has zeroed the offset again
C22_Witness ==
    /\ th[1].pc = "l160"
    /\ th[1].miss
    /\ th[2].miss
    /\ th[2].pc = "l151a"
    /\ lk.offset.w = 2
    /\ ~CanRead(lk.offset)
    /\ s.pixel_for_offset = s.current_pixel
    /\ s.offset_for_current_pixel = 0
    /\ ComputeOffset(s) > 0

\* ---- C23 ----
\* the residues of the index computed for the current pixel and sample
C23_Residues ==
    /\ s.interval_sample_index % s.base_scales[1]
          = inverse_radical_inverse(2, s.current_pixel[1] % 128, s.base_exponents[1])
    /\ s.interval_sample_index % s.base_scales[2]
          = inverse_radical_inverse(3, s.current_pixel[2] % 128, s.base_exponents[2])

\* the low digits of the index, reversed, per axis
C23_Reversed(i) ==
    inverse_radical_inverse(BaseOf(i - 1),
                            s.interval_sample_index % s.base_scales[i],
                            s.base_exponents[i])

C24_CacheConsistent ==
    /\ [] ( /\ s.pixel_for_offset = s.current_pixel
            /\ s.offset_for_current_pixel = ComputeOffset(s)
            /\ Clone(s).pixel_for_offset = Clone(s).current_pixel
            /\ Clone(s).offset_for_current_pixel = ComputeOffset(Clone(s)) )
    /\ [][ last'.op # "start_pixel" =>
              /\ s.current_pixel = s.pixel_for_offset
              /\ CacheAfter(s) = s
              /\ s'.pixel_for_offset = s.pixel_for_offset
              /\ s'.offset_for_current_pixel = s.offset_for_current_pixel ]_vars

\* set_sample_number has found the pair that start_pixel((1, 0)) installed
\* over the one of the constructor
C24_Witness ==
    /\ last.op = "set_sample_number"
    /\ last.n = 1
    /\ s.current_pixel = <<1, 0>>
    /\ s.pixel_for_offset = <<1, 0>>
    /\ s.offset_for_current_pixel = 1
    /\ s.interval_sample_index = 3

\* ---- C25 ----
\* C25: between two consecutive start_pixel / start_next_sample /
\* set_sample_number calls the dimension cursor never decreases, and no
\* dimension is consumed by two scalar draws: every dimension a get_1d or
\* get_2d consumes is at or above the cursor the call found and below the
\* cursor it leaves, so the dimensions of successive draws are disjoint and
\* strictly increasing; only start_pixel, start_next_sample and
\* set_sample_number put the cursor back to 0.
C25_CursorMonotone ==
    [][ /\ last'.op \notin {"start_pixel", "start_next_sample", "set_sample_number"}
              => s'.dimension >= s.dimension
        /\ last'.op \in {"start_pixel", "start_next_sample", "set_sample_number"}
              => s'.dimension = 0
        /\ last'.op \in {"get_1d", "get_2d"} =>
              /\ Len(last'.used) > 0
              /\ \A i \in 1..Len(last'.used) :
                    /\ last'.used[i][2] >= s.dimension
                    /\ fault' = "none" => last'.used[i][2] < s'.dimension
                    /\ last'.used[i][1] = s.interval_sample_index
              /\ last.op \in {"get_1d", "get_2d"} =>
                    \A i \in 1..Len(last'.used), j \in 1..Len(last.used) :
                        last'.used[i][2] > last.used[j][2]
              /\ fault' = "none" => s'.dimension > s.dimension
      ]_vars

\* a get_1d that found the cursor inside the window of a registered array,
\* after draws that had consumed dimensions 0 to 4, took dimension 7
C25_Witness ==
    /\ last.op = "get_1d"
    /\ fault = "none"
    /\ s.array_end_dim = 7
    /\ last.used = << <<s.interval_sample_index, 7>> >>
    /\ s.dimension = 8
    /\ s.current_pixel_sample_index = 1

====
